---- MODULE Spec2Model ----
(***************************************************************************)
(* Model of the PPmaker presentation service (src/python/main.py): the two *)
(* POST handlers extract_powerpoint and update_powerpoint.                  *)
(*                                                                         *)
(* The presentation library (python-pptx), base64 and the web framework    *)
(* are external.  What the handlers observe of them is modelled:           *)
(*   - a text value carries its characters; when the characters are the    *)
(*     base64 text of a presentation container it also carries the         *)
(*     document those bytes hold;                                          *)
(*   - a document is its slide list and its layout gallery; a slide is its *)
(*     shape list; a layout is its placeholder list;                       *)
(*   - whether two lookups of the same shape give the same Python object,  *)
(*     and what the library's built-in template contains, are not decided  *)
(*     by this repository: they are choices of the library (lib).          *)
(***************************************************************************)
EXTENDS Integers, Sequences, FiniteSets, TLC

(* ------------------------------ bounds --------------------------------- *)
MaxSlides == 2      \* slides of an uploaded document
MaxOutline == 2     \* entries of an outline
MaxLayouts == 7     \* largest layout gallery
NumThreads == 2     \* request-handling threads of the threaded server

Threads == 1..NumThreads

(* ------------------------------ text ----------------------------------- *)
Upper == {"A","B","C","D","E","F","G","H","I","J","K","L","M",
          "N","O","P","Q","R","S","T","U","V","W","X","Y","Z"}
Lower == {"a","b","c","d","e","f","g","h","i","j","k","l","m",
          "n","o","p","q","r","s","t","u","v","w","x","y","z"}
Digit == {"0","1","2","3","4","5","6","7","8","9"}
B64Alphabet == Upper \cup Lower \cup Digit \cup {"+", "/"}
Whitespace == {" ", "\t", "\n", "\r"}

NoDoc == <<>>

\* JSON null / Python None
None == [type |-> "null", chars |-> <<>>, doc |-> NoDoc]
\* a JSON string given by its characters
Str(cs) == [type |-> "str", chars |-> cs, doc |-> NoDoc]
\* the base64 text of the container holding document d ("UEsD..." is the
\* base64 of the zip signature; the remaining characters are not spelled out)
B64Doc(d) == [type |-> "str", chars |-> <<"U","E","s","D">>, doc |-> <<d>>]

CountIn(cs, S) == Cardinality({k \in 1..Len(cs) : cs[k] \in S})

\* Python truthiness of a str-or-None value
Truthy(v) == v.type = "str" /\ v.chars # <<>>

\* str.strip(): characters left after removing leading and trailing whitespace
strip(cs) ==
    LET keep == {k \in 1..Len(cs) : cs[k] \notin Whitespace}
    IN IF keep = {} THEN <<>>
       ELSE LET lo == CHOOSE k \in keep : \A m \in keep : k <= m
                hi == CHOOSE k \in keep : \A m \in keep : k >= m
            IN SubSeq(cs, lo, hi)

\* base64.b64decode(s) with the default validate=False: characters outside
\* the alphabet are discarded; the data characters must fill whole quads or
\* be completed by padding, else binascii.Error is raised.
B64Decodable(cs) ==
    LET n == CountIn(cs, B64Alphabet)
        p == CountIn(cs, {"="})
    IN \/ n % 4 = 0
       \/ n % 4 = 2 /\ p >= 2
       \/ n % 4 = 3 /\ p >= 1

b64decode(v) ==
    IF v.type # "str"
    THEN [ok |-> FALSE, doc |-> NoDoc,
          error |-> "argument should be a bytes-like object or ASCII string"]
    ELSE IF B64Decodable(v.chars)
    THEN [ok |-> TRUE, doc |-> v.doc, error |-> ""]
    ELSE [ok |-> FALSE, doc |-> NoDoc, error |-> "Incorrect padding"]

\* Presentation(io.BytesIO(file_data)): opens the container, or raises when
\* the bytes are not a presentation container.
Presentation(bytes) ==
    IF bytes.doc # NoDoc
    THEN [ok |-> TRUE, prs |-> bytes.doc[1], error |-> ""]
    ELSE [ok |-> FALSE, prs |-> [slides |-> <<>>, layouts |-> <<>>],
          error |-> "File is not a zip file"]

\* '\n'.join(lines)
RECURSIVE join(_)
join(lines) ==
    IF lines = <<>> THEN ""
    ELSE IF Len(lines) = 1 THEN lines[1]
    ELSE lines[1] \o "\n" \o join(Tail(lines))

\* dict.get(key, default)
Get(d, key, default) == IF key \in DOMAIN d THEN d[key] ELSE default

(* ---------------------------- documents -------------------------------- *)
\* shape kinds: the title placeholder, another placeholder, a free text box,
\* a picture (the only kind without a text frame)
Shape(kind, text) == [kind |-> kind, text |-> text]
has_text_frame(shape) == shape.kind # "picture"
is_placeholder(shape) == shape.kind \in {"title", "body"}

\* slide.shapes.title: position of the title placeholder, 0 when there is none
TitleIndex(slide) ==
    LET ts == {k \in 1..Len(slide.shapes) : slide.shapes[k].kind = "title"}
    IN IF ts = {} THEN 0 ELSE CHOOSE k \in ts : \A m \in ts : k <= m

\* slide.placeholders: positions of the placeholder shapes, in order
RECURSIVE PositionsFrom(_, _)
PositionsFrom(shapes, k) ==
    IF k > Len(shapes) THEN <<>>
    ELSE IF is_placeholder(shapes[k])
         THEN <<k>> \o PositionsFrom(shapes, k + 1)
         ELSE PositionsFrom(shapes, k + 1)
placeholders(slide) == PositionsFrom(slide.shapes, 1)

(* ------------------------------ library -------------------------------- *)
\* What the presentation library decides and this repository does not:
\*   same_object  whether slide.shapes.title and the iteration over
\*                slide.shapes hand out the same Python object for the title
\*                shape (the code compares them with "is not");
\*   template     the document Presentation() builds from the built-in
\*                template: its layout gallery and its seeded default slides.
Lib(same_object, template) == [same_object |-> same_object, template |-> template]

(* ------------------------------ responses ------------------------------ *)
NoResponse ==
    [kind |-> "none", status |-> 0, slides |-> <<>>, doc |-> NoDoc,
     error |-> "", filename |-> "", mode |-> "none"]
\* jsonify({"slides": slides_content})
JsonSlides(slides_content) ==
    [NoResponse EXCEPT !.kind = "json", !.status = 200, !.slides = slides_content]
\* jsonify({"error": str(e)}), 500
JsonError(msg, mode) ==
    [NoResponse EXCEPT !.kind = "error", !.status = 500, !.error = msg, !.mode = mode]
\* send_file(file_stream, as_attachment=True, download_name=filename, ...)
SendFile(prs, filename, mode) ==
    [NoResponse EXCEPT !.kind = "file", !.status = 200, !.doc = <<prs>>,
                       !.filename = filename, !.mode = mode]
\* an exception that leaves the handler: the framework's own failure page,
\* not the handler's error payload
Unhandled(msg) ==
    [NoResponse EXCEPT !.kind = "unhandled", !.status = 500, !.error = msg]

(* ------------------------------ extractor ------------------------------ *)
\* shape is slide.shapes.title, for the shape at position k
IsTitleObject(slide, k, lib) ==
    /\ TitleIndex(slide) # 0
    /\ k = TitleIndex(slide)
    /\ lib.same_object

\* [shape.text for shape in slide.shapes
\*    if shape.has_text_frame and shape is not slide.shapes.title]
RECURSIVE ContentFrom(_, _, _)
ContentFrom(slide, k, lib) ==
    IF k > Len(slide.shapes) THEN <<>>
    ELSE IF has_text_frame(slide.shapes[k]) /\ ~IsTitleObject(slide, k, lib)
         THEN <<slide.shapes[k].text>> \o ContentFrom(slide, k + 1, lib)
         ELSE ContentFrom(slide, k + 1, lib)

\* (variant: slide_number is the 0-based loop index)
SlideContentZeroBased(slide, i, lib) ==
    [slide_number |-> i,
     title |-> IF TitleIndex(slide) # 0
               THEN slide.shapes[TitleIndex(slide)].text ELSE "",
     content |-> ContentFrom(slide, 1, lib)]

\* the body of the loop over enumerate(prs.slides); i counts from 0
SlideContent(slide, i, lib) ==
    [slide_number |-> i + 1,
     title |-> IF TitleIndex(slide) # 0
               THEN slide.shapes[TitleIndex(slide)].text ELSE "",
     content |-> ContentFrom(slide, 1, lib)]

RECURSIVE SlidesContent(_, _, _)
SlidesContent(slides, i, lib) ==
    IF i >= Len(slides) THEN <<>>
    ELSE <<SlideContent(slides[i + 1], i, lib)>> \o SlidesContent(slides, i + 1, lib)

\* POST /extract-powerpoint: the decode sits before the try block
extract_powerpoint(data, lib) ==
    LET file_data == b64decode(data.file_data)
        opened == Presentation(file_data)
    IN IF ~file_data.ok THEN Unhandled(file_data.error)
       ELSE IF ~opened.ok THEN JsonError(opened.error, "none")
       ELSE JsonSlides(SlidesContent(opened.prs.slides, 0, lib))

(* ----------------------------- synthesizer ----------------------------- *)
NullWord == <<"n", "u", "l", "l">>

\* (variant: the strip() test is left out)
UpdateModeNoStrip(original_file) ==
    /\ Truthy(original_file)
    /\ original_file.chars # NullWord

\* if original_file and original_file != 'null' and original_file.strip()
UpdateMode(original_file) ==
    /\ Truthy(original_file)
    /\ original_file.chars # NullWord
    /\ strip(original_file.chars) # <<>>

\* (variant: the seeded slide is not removed)
KeepDefault(slides) == slides

\* Presentation() followed by the removal of the slide at position 0
RemoveDefault(slides) == IF Len(slides) > 0 THEN Tail(slides) ELSE slides
NewPresentation(lib) ==
    [lib.template EXCEPT !.slides = RemoveDefault(lib.template.slides)]

\* the document the handler works on, or the exception raised opening it
OpenOrCreate(original_file, lib) ==
    IF UpdateMode(original_file)
    THEN LET file_data == b64decode(original_file)
         IN IF ~file_data.ok
            THEN [ok |-> FALSE, prs |-> Presentation(file_data).prs,
                  error |-> file_data.error]
            ELSE Presentation(file_data)
    ELSE [ok |-> TRUE, prs |-> NewPresentation(lib), error |-> ""]

\* (variant: the blank layout at index 6 is taken whenever it exists)
SelectLayoutBlankFirst(n) ==
    IF n > 6 THEN 6
    ELSE IF n > 1 THEN 1
    ELSE 0

\* the layout index chosen for a gallery of n layouts (0-based, as in the code)
SelectLayout(n) ==
    IF n > 1 THEN 1
    ELSE IF n > 0 THEN 0
    ELSE IF n > 6 THEN 6 ELSE 0

\* prs.slides.add_slide(layout): one empty shape per placeholder of the layout
add_slide(layouts, index) ==
    [origin |-> "outline", layout |-> index,
     shapes |-> [k \in 1..Len(layouts[index + 1]) |->
                   Shape(layouts[index + 1][k], "")]]

\* (variant: the title is never written)
SetTitleNever(slide, slide_data) == slide

\* if 'title' in slide_data and slide.shapes.title: title.text = slide_data['title']
SetTitle(slide, slide_data) ==
    IF "title" \in DOMAIN slide_data /\ TitleIndex(slide) # 0
    THEN [slide EXCEPT !.shapes[TitleIndex(slide)].text = slide_data.title]
    ELSE slide

\* (variant: bullets win as soon as the key is present, even when empty)
ContentLinesBulletsIfPresent(slide_data) ==
    IF "bullets" \in DOMAIN slide_data
    THEN slide_data.bullets
    ELSE IF "content" \in DOMAIN slide_data /\ slide_data.content # <<>>
    THEN slide_data.content
    ELSE <<>>

\* bullets when present and non-empty, else content when present and non-empty
ContentLines(slide_data) ==
    IF "bullets" \in DOMAIN slide_data /\ slide_data.bullets # <<>>
    THEN slide_data.bullets
    ELSE IF "content" \in DOMAIN slide_data /\ slide_data.content # <<>>
    THEN slide_data.content
    ELSE <<>>

\* if len(slide.placeholders) > 1: placeholders[1].text = '\n'.join(content_lines)
SetContent(slide, slide_data) ==
    IF Len(placeholders(slide)) > 1 /\ ContentLines(slide_data) # <<>>
    THEN [slide EXCEPT !.shapes[placeholders(slide)[2]].text =
                            join(ContentLines(slide_data))]
    ELSE slide

\* the slide one outline entry yields: added from the layout, title set,
\* content set
NewSlide(layouts, index, slide_data) ==
    SetContent(SetTitle(add_slide(layouts, index), slide_data), slide_data)

\* (variant: the new slide is put in front of the slide list)
PrependOutlineSlide(prs, slide_data) ==
    LET index == SelectLayout(Len(prs.layouts))
    IN IF index >= Len(prs.layouts)
       THEN [ok |-> FALSE, prs |-> prs, error |-> "slide layout index out of range"]
       ELSE [ok |-> TRUE,
             prs |-> [prs EXCEPT !.slides =
                        <<NewSlide(prs.layouts, index, slide_data)>> \o @],
             error |-> ""]

\* the body of the loop over update_instructions['slides']
AddOutlineSlide(prs, slide_data) ==
    LET index == SelectLayout(Len(prs.layouts))
    IN IF index >= Len(prs.layouts)
       THEN [ok |-> FALSE, prs |-> prs, error |-> "slide layout index out of range"]
       ELSE [ok |-> TRUE,
             prs |-> [prs EXCEPT !.slides =
                        Append(@, NewSlide(prs.layouts, index, slide_data))],
             error |-> ""]

\* the entries the loop runs over: none when the key 'slides' is missing
OutlineOf(update_instructions) ==
    IF "slides" \in DOMAIN update_instructions THEN update_instructions.slides ELSE <<>>

RECURSIVE AddOutline(_, _, _)
AddOutline(prs, outline, i) ==
    IF i >= Len(outline) THEN [ok |-> TRUE, prs |-> prs, error |-> ""]
    ELSE LET step == AddOutlineSlide(prs, outline[i + 1])
         IN IF ~step.ok THEN step ELSE AddOutline(step.prs, outline, i + 1)

ModeOf(original_file) == IF UpdateMode(original_file) THEN "update" ELSE "create"

\* POST /update-powerpoint
update_powerpoint(data, lib) ==
    LET original_file == Get(data, "original_file", None)
        filename == Get(data, "file_name", "presentation.pptx")
        mode == ModeOf(original_file)
        opened == OpenOrCreate(original_file, lib)
        built == AddOutline(opened.prs, OutlineOf(data.update_instructions), 0)
    IN IF ~opened.ok THEN JsonError(opened.error, mode)
       ELSE IF ~built.ok THEN JsonError(built.error, mode)
       ELSE SendFile(built.prs, filename, mode)

(* ------------------------- requests of the model ----------------------- *)
\* layouts are placeholder lists; a gallery of n layouts is a window of the
\* catalog starting at offset s, so that every layout occurs at every index
LayoutCatalog == << <<"title", "body">>, <<"body", "body">>, <<"title">>, <<>> >>
Gallery(n, s) ==
    [k \in 1..n |-> LayoutCatalog[((s + k - 1) % Len(LayoutCatalog)) + 1]]
GallerySizes == {0, 1, 2, MaxLayouts}
Galleries == {Gallery(n, s) : n \in GallerySizes, s \in 0..(Len(LayoutCatalog) - 1)}

ExistingSlide(shapes) == [origin |-> "existing", layout |-> 0, shapes |-> shapes]
ExistingSlides ==
    { ExistingSlide(<<Shape("title", "Intro"), Shape("body", "Body")>>),
      ExistingSlide(<<Shape("picture", ""), Shape("textbox", "Note")>>),
      ExistingSlide(<<Shape("body", "Lone"), Shape("title", "Late")>>) }
SlideLists == UNION {[1..n -> ExistingSlides] : n \in 0..MaxSlides}
Documents == {[slides |-> sl, layouts |-> g] : sl \in SlideLists, g \in Galleries}

\* the built-in template: with or without one seeded default slide
DefaultSlide ==
    [origin |-> "default", layout |-> 0, shapes |-> <<Shape("title", "")>>]
Templates ==
    {[slides |-> sl, layouts |-> g] : sl \in {<<>>, <<DefaultSlide>>}, g \in Galleries}
NoTemplate == [slides |-> <<>>, layouts |-> <<>>]

Entries ==
    { [title |-> "Intro", bullets |-> <<"Point 1", "Point 2">>],
      [title |-> "Next", bullets |-> <<>>, content |-> <<"x">>],
      [bullets |-> <<"a", "b">>, content |-> <<"y">>],
      [title |-> "Last", content |-> <<"c1", "c2">>],
      [title |-> "Bare", bullets |-> <<>>, content |-> <<>>] }
Outlines == UNION {[1..n -> Entries] : n \in 0..MaxOutline}
Instructions == {[slides |-> o] : o \in Outlines} \cup {[theme |-> "plain"]}

Blank == Str(<<" ", "\t">>)
BadPadding == Str(<<"a", "b", "c">>)
NotAContainer == Str(<<"A", "A", "A", "A">>)
CreateTexts == {None, Str(<<>>), Blank, Str(NullWord)}
BrokenTexts == {BadPadding, NotAContainer}

ExtractRequest(text) == [endpoint |-> "extract", data |-> [file_data |-> text]]
UpdateRequest(data) == [endpoint |-> "update", data |-> data]
NoRequest == [endpoint |-> "none", data |-> [none |-> TRUE]]

ExtractRequests ==
    {ExtractRequest(v) :
        v \in {B64Doc(d) : d \in Documents} \cup BrokenTexts \cup {Str(<<>>), Blank}}
UpdateRequests ==
    {UpdateRequest(data) : data \in
        {[original_file |-> v, update_instructions |-> u] :
            v \in {B64Doc(d) : d \in Documents} \cup CreateTexts \cup BrokenTexts,
            u \in Instructions}
        \cup {[update_instructions |-> u] : u \in Instructions}
        \cup {[update_instructions |-> u, file_name |-> "deck.pptx"] :
                u \in Instructions}}
Requests == ExtractRequests \cup UpdateRequests

\* the library behaviours a request can meet, the built-in template being
\* one of T; those the request never exercises are held fixed
LibChoices(r, T) ==
    IF r.endpoint = "extract"
    THEN {Lib(b, NoTemplate) : b \in BOOLEAN}
    ELSE IF ~UpdateMode(Get(r.data, "original_file", None))
    THEN {Lib(FALSE, tpl) : tpl \in T}
    ELSE {Lib(FALSE, NoTemplate)}

(* ------------------------------- state --------------------------------- *)
VARIABLES
    req,            \* per thread: the request being handled
    lib,            \* per thread: the library behaviour met by the request
    pc,             \* per thread: position in the handler
    resp,           \* per thread: the response produced
    hist,           \* per thread: the update request whose output was re-uploaded
    file_data,      \* per thread: local file_data of extract_powerpoint
    prs,            \* per thread: local prs
    slides_content, \* per thread: local slides_content of extract_powerpoint
    i               \* per thread: loop index over update_instructions['slides']

vars == <<req, lib, pc, resp, hist, file_data, prs, slides_content, i>>
locals == <<file_data, prs, slides_content, i>>

NoBytes == [ok |-> FALSE, doc |-> NoDoc, error |-> ""]

Init ==
    /\ req = [t \in Threads |-> NoRequest]
    /\ lib = [t \in Threads |-> Lib(FALSE, NoTemplate)]
    /\ pc = [t \in Threads |-> "idle"]
    /\ resp = [t \in Threads |-> NoResponse]
    /\ hist = [t \in Threads |-> NoRequest]
    /\ file_data = [t \in Threads |-> NoBytes]
    /\ prs = [t \in Threads |-> NoTemplate]
    /\ slides_content = [t \in Threads |-> <<>>]
    /\ i = [t \in Threads |-> 0]

\* a client posts a request drawn from R; the library's template is one of T
Receive(t, R, T) ==
    /\ pc[t] = "idle"
    /\ \E r \in R : \E l \in LibChoices(r, T) :
          /\ req' = [req EXCEPT ![t] = r]
          /\ lib' = [lib EXCEPT ![t] = l]
    /\ pc' = [pc EXCEPT ![t] = "received"]
    /\ UNCHANGED <<resp, hist, locals>>

\* the whole handler of POST /extract-powerpoint
ExtractPowerpoint(t) ==
    /\ pc[t] = "received"
    /\ req[t].endpoint = "extract"
    /\ resp' = [resp EXCEPT ![t] = extract_powerpoint(req[t].data, lib[t])]
    /\ pc' = [pc EXCEPT ![t] = "done"]
    /\ UNCHANGED <<req, lib, hist, locals>>

\* the whole handler of POST /update-powerpoint
UpdatePowerpoint(t) ==
    /\ pc[t] = "received"
    /\ req[t].endpoint = "update"
    /\ resp' = [resp EXCEPT ![t] = update_powerpoint(req[t].data, lib[t])]
    /\ pc' = [pc EXCEPT ![t] = "done"]
    /\ UNCHANGED <<req, lib, hist, locals>>

\* the client posts the file it was sent back to POST /extract-powerpoint
Reupload(t) ==
    /\ pc[t] = "done"
    /\ resp[t].kind = "file"
    /\ hist' = [hist EXCEPT ![t] = req[t]]
    /\ req' = [req EXCEPT ![t] = ExtractRequest(B64Doc(resp[t].doc[1]))]
    /\ resp' = [resp EXCEPT ![t] = NoResponse]
    /\ pc' = [pc EXCEPT ![t] = "received"]
    /\ UNCHANGED <<lib, locals>>

\* the response is sent and the handling call is over
Deliver(t) ==
    /\ pc[t] = "done"
    /\ req' = [req EXCEPT ![t] = NoRequest]
    /\ lib' = [lib EXCEPT ![t] = Lib(FALSE, NoTemplate)]
    /\ resp' = [resp EXCEPT ![t] = NoResponse]
    /\ hist' = [hist EXCEPT ![t] = NoRequest]
    /\ pc' = [pc EXCEPT ![t] = "idle"]
    /\ file_data' = [file_data EXCEPT ![t] = NoBytes]
    /\ prs' = [prs EXCEPT ![t] = NoTemplate]
    /\ slides_content' = [slides_content EXCEPT ![t] = <<>>]
    /\ i' = [i EXCEPT ![t] = 0]

\* one request at a time, each handler run as a whole
Next ==
    \/ Receive(1, Requests, Templates)
    \/ ExtractPowerpoint(1)
    \/ UpdatePowerpoint(1)
    \/ Reupload(1)
    \/ Deliver(1)

Spec == Init /\ [][Next]_vars

(* --------------------- threaded request handling ----------------------- *)
\* (variant: the handlers' names are module-level, one frame for all threads)
SharedFrame(t) == 1

\* app.run() serves each request on its own thread; the handlers then run
\* statement by statement, interleaved.  Every name a handler assigns is a
\* local of the call: thread t works in its own frame.
Frame(t) == t

\* extract_powerpoint, lines 17-18: the decode before the try block
XDecode(t) ==
    /\ pc[t] = "received"
    /\ req[t].endpoint = "extract"
    /\ LET bytes == b64decode(req[t].data.file_data)
       IN /\ file_data' = [file_data EXCEPT ![Frame(t)] = bytes]
          /\ IF bytes.ok
             THEN /\ pc' = [pc EXCEPT ![t] = "x_open"]
                  /\ UNCHANGED resp
             ELSE /\ pc' = [pc EXCEPT ![t] = "done"]
                  /\ resp' = [resp EXCEPT ![t] = Unhandled(bytes.error)]
    /\ UNCHANGED <<req, lib, hist, prs, slides_content, i>>

\* lines 21-22: open the document, start the empty result list
XOpen(t) ==
    /\ pc[t] = "x_open"
    /\ LET opened == Presentation(file_data[Frame(t)])
       IN IF opened.ok
          THEN /\ prs' = [prs EXCEPT ![Frame(t)] = opened.prs]
               /\ slides_content' = [slides_content EXCEPT ![Frame(t)] = <<>>]
               /\ pc' = [pc EXCEPT ![t] = "x_loop"]
               /\ UNCHANGED resp
          ELSE /\ resp' = [resp EXCEPT ![t] = JsonError(opened.error, "none")]
               /\ pc' = [pc EXCEPT ![t] = "done"]
               /\ UNCHANGED <<prs, slides_content>>
    /\ UNCHANGED <<req, lib, hist, file_data, i>>

\* lines 23-29: one iteration of the loop over the slides
XSlide(t) ==
    /\ pc[t] = "x_loop"
    /\ Len(slides_content[Frame(t)]) < Len(prs[Frame(t)].slides)
    /\ LET n == Len(slides_content[Frame(t)])
       IN slides_content' = [slides_content EXCEPT ![Frame(t)] =
             Append(@, SlideContent(prs[Frame(t)].slides[n + 1], n, lib[t]))]
    /\ UNCHANGED <<req, lib, pc, resp, hist, file_data, prs, i>>

\* line 31: the loop is over, the list is returned
XReturn(t) ==
    /\ pc[t] = "x_loop"
    /\ Len(slides_content[Frame(t)]) >= Len(prs[Frame(t)].slides)
    /\ resp' = [resp EXCEPT ![t] = JsonSlides(slides_content[Frame(t)])]
    /\ pc' = [pc EXCEPT ![t] = "done"]
    /\ UNCHANGED <<req, lib, hist, locals>>

\* update_powerpoint, lines 37-59: open the supplied document or build a new one
UOpen(t) ==
    /\ pc[t] = "received"
    /\ req[t].endpoint = "update"
    /\ LET original_file == Get(req[t].data, "original_file", None)
           opened == OpenOrCreate(original_file, lib[t])
       IN IF opened.ok
          THEN /\ prs' = [prs EXCEPT ![Frame(t)] = opened.prs]
               /\ i' = [i EXCEPT ![Frame(t)] = 0]
               /\ pc' = [pc EXCEPT ![t] = "u_loop"]
               /\ UNCHANGED resp
          ELSE /\ resp' = [resp EXCEPT ![t] =
                              JsonError(opened.error, ModeOf(original_file))]
               /\ pc' = [pc EXCEPT ![t] = "done"]
               /\ UNCHANGED <<prs, i>>
    /\ UNCHANGED <<req, lib, hist, file_data, slides_content>>

\* lines 65-101: one iteration of the loop over the outline
USlide(t) ==
    /\ pc[t] = "u_loop"
    /\ LET outline == OutlineOf(req[t].data.update_instructions)
       IN /\ i[Frame(t)] < Len(outline)
          /\ LET step == AddOutlineSlide(prs[Frame(t)], outline[i[Frame(t)] + 1])
             IN IF step.ok
                THEN /\ prs' = [prs EXCEPT ![Frame(t)] = step.prs]
                     /\ i' = [i EXCEPT ![Frame(t)] = @ + 1]
                     /\ UNCHANGED <<pc, resp>>
                ELSE /\ resp' = [resp EXCEPT ![t] = JsonError(step.error,
                              ModeOf(Get(req[t].data, "original_file", None)))]
                     /\ pc' = [pc EXCEPT ![t] = "done"]
                     /\ UNCHANGED <<prs, i>>
    /\ UNCHANGED <<req, lib, hist, file_data, slides_content>>

\* lines 103-116: save the document and send it
USave(t) ==
    /\ pc[t] = "u_loop"
    /\ i[Frame(t)] >= Len(OutlineOf(req[t].data.update_instructions))
    /\ resp' = [resp EXCEPT ![t] =
                  SendFile(prs[Frame(t)],
                           Get(req[t].data, "file_name", "presentation.pptx"),
                           ModeOf(Get(req[t].data, "original_file", None)))]
    /\ pc' = [pc EXCEPT ![t] = "done"]
    /\ UNCHANGED <<req, lib, hist, locals>>

\* the requests of the threaded runs: both endpoints, both modes, failures
ConcDocument ==
    [slides |-> <<ExistingSlide(<<Shape("title", "Intro"), Shape("body", "Body")>>),
                  ExistingSlide(<<Shape("picture", ""), Shape("textbox", "Note")>>)>>,
     layouts |-> Gallery(2, 0)]
ConcOutline ==
    <<[title |-> "Intro", bullets |-> <<"Point 1", "Point 2">>],
      [title |-> "Next", bullets |-> <<>>, content |-> <<"x">>]>>
ConcTemplate == [slides |-> <<DefaultSlide>>, layouts |-> Gallery(2, 0)]
ConcRequests ==
    { ExtractRequest(B64Doc(ConcDocument)),
      ExtractRequest(BadPadding),
      ExtractRequest(NotAContainer),
      UpdateRequest([update_instructions |-> [slides |-> ConcOutline]]),
      UpdateRequest([original_file |-> B64Doc(ConcDocument),
                     update_instructions |-> [slides |-> ConcOutline],
                     file_name |-> "deck.pptx"]),
      UpdateRequest([original_file |-> BadPadding,
                     update_instructions |-> [slides |-> ConcOutline]]) }

NextConc ==
    \E t \in Threads :
        \/ Receive(t, ConcRequests, {ConcTemplate})
        \/ XDecode(t)
        \/ XOpen(t)
        \/ XSlide(t)
        \/ XReturn(t)
        \/ UOpen(t)
        \/ USlide(t)
        \/ USave(t)
        \/ Deliver(t)

SpecConc == Init /\ [][NextConc]_vars

(* ======================= properties of the handlers ==================== *)
Done(t) == pc[t] = "done"
DoneExtract(t) == Done(t) /\ req[t].endpoint = "extract"
DoneUpdate(t) == Done(t) /\ req[t].endpoint = "update"
OriginalFile(t) == Get(req[t].data, "original_file", None)
Outline(t) == OutlineOf(req[t].data.update_instructions)
Output(t) == resp[t].doc[1]
IsBlankText(cs) == \A k \in 1..Len(cs) : cs[k] \in Whitespace

\* the texts of the text-bearing shapes of a slide, the title shape left out
RECURSIVE NonTitleTexts(_, _)
NonTitleTexts(slide, k) ==
    IF k > Len(slide.shapes) THEN <<>>
    ELSE IF has_text_frame(slide.shapes[k]) /\ k # TitleIndex(slide)
         THEN <<slide.shapes[k].text>> \o NonTitleTexts(slide, k + 1)
         ELSE NonTitleTexts(slide, k + 1)
\* the texts of all the text-bearing shapes of a slide
RECURSIVE AllTexts(_, _)
AllTexts(slide, k) ==
    IF k > Len(slide.shapes) THEN <<>>
    ELSE IF has_text_frame(slide.shapes[k])
         THEN <<slide.shapes[k].text>> \o AllTexts(slide, k + 1)
         ELSE AllTexts(slide, k + 1)
TitleText(slide) ==
    IF TitleIndex(slide) # 0 THEN slide.shapes[TitleIndex(slide)].text ELSE ""

\* the document field of the request cannot be base64-decoded
Undecodable(t) ==
    \/ /\ req[t].endpoint = "extract"
       /\ ~B64Decodable(req[t].data.file_data.chars)
    \/ /\ req[t].endpoint = "update"
       /\ OriginalFile(t).type = "str"
       /\ ~IsBlankText(OriginalFile(t).chars)
       /\ OriginalFile(t).chars # NullWord
       /\ ~B64Decodable(OriginalFile(t).chars)

\* C1: on both endpoints a request whose base64 document field cannot be
\* decoded ends in the handler's error response, {"error": ...} with status
\* 500; the exception never leaves the handler.
C1_UndecodableGivesErrorResponse ==
    \A t \in Threads :
        Done(t) /\ Undecodable(t) =>
            resp[t].kind = "error" /\ resp[t].status = 500

\* C2: for every slide the Extractor reports, the title shape does not
\* contribute to content: content is the texts of the text-bearing shapes
\* other than the title shape, in order.
C2_TitleNotInContent ==
    \A t \in Threads :
        DoneExtract(t) /\ resp[t].kind = "json" =>
            \A k \in 1..Len(resp[t].slides) :
                resp[t].slides[k].content =
                    NonTitleTexts(req[t].data.file_data.doc[1].slides[k], 1)

\* C7: for a valid document with k slides the Extractor answers with exactly
\* k entries, the n-th describing the n-th slide and numbered n.
C7_OneEntryPerSlideInOrder ==
    \A t \in Threads :
        DoneExtract(t) /\ req[t].data.file_data.doc # NoDoc =>
            LET slides == req[t].data.file_data.doc[1].slides
                out == resp[t].slides
            IN /\ resp[t].kind = "json"
               /\ Len(out) = Len(slides)
               /\ \A n \in 1..Len(out) :
                    /\ out[n].slide_number = n
                    /\ out[n].title = TitleText(slides[n])
                    /\ out[n].content \in
                         {NonTitleTexts(slides[n], 1), AllTexts(slides[n], 1)}
C7_Witness ==
    \E t \in Threads :
        /\ DoneExtract(t)
        /\ resp[t].kind = "json"
        /\ Len(resp[t].slides) = 2
        /\ resp[t].slides[1].title = "Late"
        /\ resp[t].slides[2].title = "Intro"

\* the slides the outline of request t added: the last Len(Outline(t)) slides
\* of the output; Generated(t, k) is the one added for the k-th entry
Base(t) == Len(Output(t).slides) - Len(Outline(t))
Generated(t, k) == Output(t).slides[Base(t) + k]
FileFromOutline(t) == DoneUpdate(t) /\ resp[t].kind = "file"

\* C3: in create mode with a non-empty outline, whether or not the fresh
\* document was seeded with a default slide, that slide is absent from the
\* output and the first output slide is the one generated from the first
\* outline entry.
C3_CreateModeDropsDefaultSlide ==
    \A t \in Threads :
        FileFromOutline(t) /\ resp[t].mode = "create" /\ Outline(t) # <<>> =>
            LET layouts == lib[t].template.layouts
            IN /\ \A k \in 1..Len(Output(t).slides) :
                    Output(t).slides[k].origin # "default"
               /\ Output(t).slides[1] =
                    NewSlide(layouts, SelectLayout(Len(layouts)), Outline(t)[1])
C3_Witness ==
    \E t \in Threads :
        /\ FileFromOutline(t)
        /\ resp[t].mode = "create"
        /\ lib[t].template.slides # <<>>
        /\ Len(Outline(t)) = 2
        /\ TitleText(Output(t).slides[1]) = "Next"

\* C4: in update mode the output's slides are the existing document's slides,
\* unchanged and in their order, followed by exactly the slides generated from
\* the outline entries, in outline order.
C4_UpdateModeAppends ==
    \A t \in Threads :
        FileFromOutline(t) /\ resp[t].mode = "update" =>
            LET original == OriginalFile(t).doc[1]
                n == Len(original.layouts)
            IN /\ Len(Output(t).slides) = Len(original.slides) + Len(Outline(t))
               /\ SubSeq(Output(t).slides, 1, Len(original.slides)) = original.slides
               /\ \A k \in 1..Len(Outline(t)) :
                    Generated(t, k) =
                        NewSlide(original.layouts, SelectLayout(n), Outline(t)[k])
               /\ Output(t).layouts = original.layouts
C4_Witness ==
    \E t \in Threads :
        /\ FileFromOutline(t)
        /\ resp[t].mode = "update"
        /\ Len(OriginalFile(t).doc[1].slides) = 2
        /\ OriginalFile(t).doc[1].slides[1] # OriginalFile(t).doc[1].slides[2]
        /\ Len(Outline(t)) = 2

\* the lines the claim prescribes for an outline entry
ClaimedLines(e) ==
    IF "bullets" \in DOMAIN e /\ Len(e.bullets) > 0 THEN e.bullets
    ELSE IF "content" \in DOMAIN e /\ Len(e.content) > 0 THEN e.content
    ELSE <<>>
\* lines joined with one newline between consecutive lines
RECURSIVE NewlineJoined(_, _)
NewlineJoined(lines, k) ==
    IF k > Len(lines) THEN ""
    ELSE IF k = Len(lines) THEN lines[k]
    ELSE lines[k] \o "\n" \o NewlineJoined(lines, k + 1)

\* C5: for every outline entry whose new slide has more than one placeholder,
\* the lines are bullets if present and non-empty, else content if present and
\* non-empty, else none; with lines the second placeholder's text is the lines
\* joined by single newlines (["a","b"] gives "a\nb", bullets [] with content
\* ["x"] gives "x"), without lines the text is left as the layout gave it.
C5_ContentSelection ==
    \A t \in Threads :
        FileFromOutline(t) =>
            \A k \in 1..Len(Outline(t)) :
                LET g == Generated(t, k)
                    e == Outline(t)[k]
                    text == g.shapes[placeholders(g)[2]].text
                IN Len(placeholders(g)) > 1 =>
                    /\ ClaimedLines(e) # <<>> =>
                          text = NewlineJoined(ClaimedLines(e), 1)
                    /\ ClaimedLines(e) = <<>> => text = ""
                    /\ ClaimedLines(e) = <<"a", "b">> => text = "a\nb"
                    /\ ClaimedLines(e) = <<"x">> => text = "x"
C5_Witness ==
    \E t \in Threads :
        /\ FileFromOutline(t)
        /\ Len(Outline(t)) = 2
        /\ Outline(t)[1] = [title |-> "Next", bullets |-> <<>>, content |-> <<"x">>]
        /\ Outline(t)[2] = [bullets |-> <<"a", "b">>, content |-> <<"y">>]
        /\ Len(placeholders(Generated(t, 1))) > 1
        /\ Generated(t, 1).shapes[placeholders(Generated(t, 1))[2]].text = "x"
        /\ Generated(t, 2).shapes[placeholders(Generated(t, 2))[2]].text = "a\nb"

\* an extraction of the file a create-mode synthesis sent back
RoundTrip(t) ==
    /\ DoneExtract(t)
    /\ hist[t].endpoint = "update"
    /\ ~UpdateMode(Get(hist[t].data, "original_file", None))
SourceOutline(t) == OutlineOf(hist[t].data.update_instructions)
\* the layout the synthesis used exposes a title placeholder
ChosenLayoutHasTitle(t) ==
    LET layouts == lib[t].template.layouts
    IN \E k \in 1..Len(layouts[SelectLayout(Len(layouts)) + 1]) :
          layouts[SelectLayout(Len(layouts)) + 1][k] = "title"

Alone(t) ==
    IF req[t].endpoint = "extract"
    THEN extract_powerpoint(req[t].data, lib[t])
    ELSE update_powerpoint(req[t].data, lib[t])

\* C8: under any interleaving of concurrently handled extract and update
\* requests, each request's response is the one it gets when handled alone.
C8_RequestIsolation ==
    \A t \in Threads : Done(t) => resp[t] = Alone(t)
C8_Witness ==
    \E t \in Threads : \E u \in Threads \ {t} :
        /\ Done(t) /\ resp[t].kind = "file" /\ resp[t].mode = "update"
        /\ pc[u] = "u_loop" /\ i[Frame(u)] = 1
        /\ req[u] # req[t]

\* C9: for a gallery of n layouts the layout at index 1 is used when n > 1,
\* else the layout at index 0 when n = 1; the layout at index 6 is used only
\* when n > 6 and neither of those choices applies; every slide of a request
\* gets the same choice, and the slide is built from the chosen layout.
C9_LayoutSelection ==
    \A t \in Threads :
        FileFromOutline(t) =>
            LET n == Len(Output(t).layouts)
            IN \A k \in 1..Len(Outline(t)) :
                  LET g == Generated(t, k)
                  IN /\ n > 1 => g.layout = 1
                     /\ n = 1 => g.layout = 0
                     /\ g.layout = 6 => n > 6 /\ ~(n > 1) /\ ~(n = 1)
                     /\ g.layout = Generated(t, 1).layout
                     /\ g.layout < n
                     /\ Len(g.shapes) = Len(Output(t).layouts[g.layout + 1])
                     /\ \A m \in 1..Len(g.shapes) :
                           g.shapes[m].kind = Output(t).layouts[g.layout + 1][m]
C9_Witness ==
    \E t \in Threads :
        /\ FileFromOutline(t)
        /\ Len(Output(t).layouts) > 6
        /\ Len(Outline(t)) = 2
        /\ Generated(t, 1).layout = 1
        /\ Generated(t, 2).layout = 1

\* the field is present, not JSON null, and not empty or whitespace-only
PresentNonNullNonBlank(t) ==
    /\ "original_file" \in DOMAIN req[t].data
    /\ req[t].data.original_file.type # "null"
    /\ ~IsBlankText(req[t].data.original_file.chars)
\* what create mode does: a fresh document, nothing decoded
CreateModeEffects(t) ==
    /\ resp[t].kind = "file" =>
          /\ \A k \in 1..Len(Output(t).slides) : Output(t).slides[k].origin = "outline"
          /\ Len(Output(t).slides) = Len(Outline(t))
          /\ Output(t).layouts = lib[t].template.layouts
    /\ resp[t].kind = "error" =>
          resp[t].error \notin {"Incorrect padding", "File is not a zip file"}

\* C10 (as stated): update mode is chosen exactly when original_file is
\* present, non-null and non-blank; in every other case create mode is chosen,
\* a fresh document is built and no supplied bytes are decoded.
C10_ModeSelection ==
    \A t \in Threads :
        DoneUpdate(t) =>
            /\ resp[t].mode = "update" <=> PresentNonNullNonBlank(t)
            /\ resp[t].mode = "create" <=> ~PresentNonNullNonBlank(t)
            /\ resp[t].mode = "create" => CreateModeEffects(t)

\* C10 (amended): update mode is chosen exactly when original_file is present,
\* non-null, non-blank and not the four-character string "null"; in every
\* other case create mode is chosen, a fresh document is built and no supplied
\* bytes are decoded.
C10_ModeSelectionNullWord ==
    \A t \in Threads :
        DoneUpdate(t) =>
            LET update == PresentNonNullNonBlank(t)
                            /\ req[t].data.original_file.chars # <<"n", "u", "l", "l">>
            IN /\ resp[t].mode = "update" <=> update
               /\ resp[t].mode = "create" <=> ~update
               /\ resp[t].mode = "create" => CreateModeEffects(t)
C10_Witness ==
    \E t \in Threads :
        /\ DoneUpdate(t)
        /\ "original_file" \in DOMAIN req[t].data
        /\ req[t].data.original_file.chars = <<"n", "u", "l", "l">>
        /\ resp[t].mode = "create"
        /\ resp[t].kind = "file"
        /\ Len(Output(t).slides) = 2

====
